---- MODULE Spec2Model ----
(***************************************************************************)
(* Loan-default predictor: the feature transformer (src/src/preprocess.py), *)
(* the training orchestrator (src/src/train_model.py) and the inference     *)
(* endpoint (src/app.py).                                                   *)
(*                                                                          *)
(* A DataFrame is [cols, rows, err]: the ordered column names, one function *)
(* from column name to cell per row, and the exception that ended the       *)
(* computation ("" when none).  A cell is [k, s, n, d]: a number n/d        *)
(* (k = "num", exact rational in lowest terms), a string s (k = "str"),     *)
(* NaN/None (k = "nan") or +-infinity (k = "inf", sign n).  IEEE rounding   *)
(* of float64 is not modelled: arithmetic is exact.                         *)
(***************************************************************************)
EXTENDS Integers, Sequences, FiniteSets, TLC

VARIABLES
    df,     \* the batch handed to clean_raw_df
    out,    \* what clean_raw_df returned (err set when it raised)
    eng,    \* clean_raw_df's local df after section 3, before outlier capping
    alone,  \* for each record of df, clean_raw_df of the batch holding it alone
    pc,     \* "input" while the batch is built, "done" once clean_raw_df was called
    modelFile,       \* models/model.pkl: [run, cols], run 0 when absent
    featuresFile,    \* models/features.pkl: [run, cols], run 0 when absent
    run,             \* number of train_and_save calls so far
    raw_csv,         \* the CSV of the current train_and_save call ("" before the first)
    trainPc,         \* where the current train_and_save call is
    trainErr,        \* the exception that ended it ("" when none)
    transformerRan,  \* the current call has called clean_raw_df
    trainDf,         \* train_and_save's df (the cleaned records)
    trainCols,       \* train_and_save's feature_cols
    srvPc,           \* the serving process: "down", "model_loaded", "up"
    model,           \* app.py's model global: [run, cols]
    feature_cols,    \* app.py's feature_cols global: [run, cols]
    handed,          \* the columns of the batch last handed to the model
    resp             \* the last response of predict_loan_status

\* ------------------------------------------------------------------ cells

RECURSIVE GCD(_, _)
GCD(a, b) == IF b = 0 THEN a ELSE GCD(b, a % b)

Abs(x) == IF x < 0 THEN 0 - x ELSE x

\* the number n/d (d > 0) in lowest terms
Q(n, d) ==
    LET g == GCD(Abs(n), d)
    IN  [k |-> "num", s |-> "", n |-> n \div g, d |-> d \div g]

Num(n) == Q(n, 1)
NaN == [k |-> "nan", s |-> "", n |-> 0, d |-> 1]
Inf(sign) == [k |-> "inf", s |-> "", n |-> sign, d |-> 1]
Str(s) == [k |-> "str", s |-> s, n |-> 0, d |-> 1]

IsNull(v) == v.k = "nan"
IsNum(v) == v.k = "num"
IsZero(v) == v.k = "num" /\ v.n = 0

QAdd(a, b) == Q(a.n * b.d + b.n * a.d, a.d * b.d)
QSub(a, b) == Q(a.n * b.d - b.n * a.d, a.d * b.d)
QMul(a, b) == Q(a.n * b.n, a.d * b.d)
QLess(a, b) == a.n * b.d < b.n * a.d

\* float64 true division as numpy does it: x/0 is +-inf, 0/0 and NaN operands give NaN
Divide(x, y) ==
    IF ~IsNum(x) \/ ~IsNum(y) THEN NaN
    ELSE IF y.n = 0 THEN (IF x.n = 0 THEN NaN ELSE Inf(IF x.n > 0 THEN 1 ELSE -1))
    ELSE IF y.n > 0 THEN Q(x.n * y.d, x.d * y.n)
    ELSE Q(0 - x.n * y.d, x.d * (0 - y.n))

\* Python int(x): truncation toward zero
Trunc(v) == IF v.n >= 0 THEN Num(v.n \div v.d) ELSE Num(0 - ((0 - v.n) \div v.d))

\* lexicographic order of the strings the model uses, as Python sorts them
StrSorted == <<"0", "1", "2", "3+", "Female", "Male", "No", "Other", "Yes", "abc">>
StrRank(s) == CHOOSE i \in 1..Len(StrSorted) : StrSorted[i] = s

\* order on non-null cells of one kind (numbers by value, strings lexicographically)
Less(a, b) ==
    IF a.k = "num" /\ b.k = "num" THEN QLess(a, b)
    ELSE IF a.k = "str" /\ b.k = "str" THEN StrRank(a.s) < StrRank(b.s)
    ELSE FALSE

\* ------------------------------------------------------- Series statistics

RECURSIVE DropNa(_)
DropNa(s) ==
    IF s = <<>> THEN <<>>
    ELSE IF IsNull(Head(s)) THEN DropNa(Tail(s))
    ELSE <<Head(s)>> \o DropNa(Tail(s))

RECURSIVE Insert(_, _)
Insert(v, s) ==
    IF s = <<>> THEN <<v>>
    ELSE IF Less(Head(s), v) THEN <<Head(s)>> \o Insert(v, Tail(s))
    ELSE <<v>> \o s

RECURSIVE Sorted(_)
Sorted(s) == IF s = <<>> THEN <<>> ELSE Insert(Head(s), Sorted(Tail(s)))

\* Series.median(): NaN skipped; NaN when nothing is left
Median(s) ==
    LET v == Sorted(DropNa(s))
        n == Len(v)
    IN  IF n = 0 THEN NaN
        ELSE IF n % 2 = 1 THEN v[(n + 1) \div 2]
        ELSE QMul(QAdd(v[n \div 2], v[n \div 2 + 1]), Q(1, 2))

\* Series.quantile(qn/qd), linear interpolation at position (n-1)*q; NaN skipped
Quantile(s, qn, qd) ==
    LET v == Sorted(DropNa(s))
        n == Len(v)
        lo == ((n - 1) * qn) \div qd
        rem == ((n - 1) * qn) % qd
    IN  IF n = 0 THEN NaN
        ELSE IF rem = 0 THEN v[lo + 1]
        ELSE QAdd(v[lo + 1], QMul(Q(rem, qd), QSub(v[lo + 2], v[lo + 1])))

Count(v, s) == Cardinality({i \in DOMAIN s : s[i] = v})

\* the values that occur most often in a sequence with no null
MostFrequent(v) ==
    {x \in {v[i] : i \in DOMAIN v} : \A j \in DOMAIN v : Count(v[j], v) <= Count(x, v)}

RECURSIVE SetToSorted(_)
SetToSorted(S) ==
    IF S = {} THEN <<>>
    ELSE LET m == CHOOSE x \in S : \A y \in S : ~Less(y, x)
         IN  <<m>> \o SetToSorted(S \ {m})

\* Series.mode(): the most frequent non-null values, sorted; empty when all are null
Mode(s) == SetToSorted(MostFrequent(DropNa(s)))


\* -------------------------------------------------------------- DataFrame

Raise(e) == [cols |-> <<>>, rows |-> <<>>, err |-> e]
Frame(cols, rows) == [cols |-> cols, rows |-> rows, err |-> ""]

HasCol(d, c) == \E i \in DOMAIN d.cols : d.cols[i] = c
Col(d, c) == [i \in DOMAIN d.rows |-> d.rows[i][c]]

\* df[c] = vals: an existing column keeps its place, a new one is appended
SetCol(d, c, vals) ==
    [d EXCEPT !.cols = IF HasCol(d, c) THEN d.cols ELSE Append(d.cols, c),
              !.rows = [i \in DOMAIN d.rows |-> (c :> vals[i]) @@ d.rows[i]]]

RECURSIVE Without(_, _)
Without(cols, S) ==
    IF cols = <<>> THEN <<>>
    ELSE IF Head(cols) \in S THEN Without(Tail(cols), S)
    ELSE <<Head(cols)>> \o Without(Tail(cols), S)

\* df.drop(columns=S, errors='ignore')
DropCols(d, S) ==
    LET keep == Without(d.cols, S)
        names == {keep[i] : i \in DOMAIN keep}
    IN  [d EXCEPT !.cols = keep,
                  !.rows = [i \in DOMAIN d.rows |-> [c \in names |-> d.rows[i][c]]]]

Fillna(s, v) == [i \in DOMAIN s |-> IF IsNull(s[i]) THEN v ELSE s[i]]
AnyNull(s) == \E i \in DOMAIN s : IsNull(s[i])
AllNull(s) == \A i \in DOMAIN s : IsNull(s[i])

\* run step F unless an exception has already ended the computation
Then(d, F(_)) == IF d.err # "" THEN d ELSE F(d)

\* ------------------------------------------- clean_raw_df, 1) imputations

\* df[c].fillna(df[c].mode()[0]): indexing an empty mode raises KeyError
FillnaMode(d, c) ==
    IF ~HasCol(d, c) THEN d
    ELSE IF Mode(Col(d, c)) = <<>> THEN Raise("KeyError")
    ELSE SetCol(d, c, Fillna(Col(d, c), Mode(Col(d, c))[1]))

FillnaConst(d, c, v) ==
    IF HasCol(d, c) THEN SetCol(d, c, Fillna(Col(d, c), v)) ELSE d

ImputeLoanAmount(d) ==
    IF HasCol(d, "LoanAmount")
    THEN SetCol(d, "LoanAmount", Fillna(Col(d, "LoanAmount"), Median(Col(d, "LoanAmount"))))
    ELSE d

ImputeApplicantIncome(d) == FillnaConst(d, "ApplicantIncome", Num(0))
ImputeCoapplicantIncome(d) == FillnaConst(d, "CoapplicantIncome", Num(0))
ImputeLoanAmountTerm(d) == FillnaMode(d, "Loan_Amount_Term")

ImputeCreditHistory(d) ==
    IF ~HasCol(d, "Credit_History") THEN d
    ELSE IF Mode(Col(d, "Credit_History")) # <<>>
    THEN SetCol(d, "Credit_History",
                Fillna(Col(d, "Credit_History"), Mode(Col(d, "Credit_History"))[1]))
    ELSE SetCol(d, "Credit_History", Fillna(Col(d, "Credit_History"), Num(1)))

ImputeSelfEmployed(d) == FillnaConst(d, "Self_Employed", Str("No"))
ImputeGender(d) == FillnaMode(d, "Gender")
ImputeMarried(d) == FillnaMode(d, "Married")
ImputeDependents(d) == FillnaMode(d, "Dependents")

BasicImputations(d) ==
    Then(Then(Then(Then(Then(Then(Then(Then(ImputeLoanAmount(d),
        ImputeApplicantIncome), ImputeCoapplicantIncome), ImputeLoanAmountTerm),
        ImputeCreditHistory), ImputeSelfEmployed), ImputeGender), ImputeMarried),
        ImputeDependents)

\* ---------------------------------------- clean_raw_df, 2) Dependents cleanup

\* astype(str) of a cell; the Dependents cells the model draws are strings
\* (a null cell would print as 'nan')
AsStr(v) == IF v.k = "str" THEN v ELSE Str("nan")

\* .replace('3+', '3'): whole-cell replacement
Replace3Plus(v) == IF v = Str("3+") THEN Str("3") ELSE v

\* pd.to_numeric(errors='coerce') on the strings of the model
ToNumeric(v) ==
    IF v = Str("0") THEN Num(0)
    ELSE IF v = Str("1") THEN Num(1)
    ELSE IF v = Str("2") THEN Num(2)
    ELSE IF v = Str("3") THEN Num(3)
    ELSE NaN

DependentsCleanup(d) ==
    IF ~HasCol(d, "Dependents") THEN d
    ELSE LET raw == Col(d, "Dependents")
             num == [i \in DOMAIN raw |-> ToNumeric(Replace3Plus(AsStr(raw[i])))]
         IN  IF AnyNull(num) /\ Mode(num) = <<>> THEN Raise("KeyError")
             ELSE LET filled == IF AnyNull(num) THEN Fillna(num, Mode(num)[1]) ELSE num
                  IN  SetCol(d, "Dependents", [i \in DOMAIN filled |-> Trunc(filled[i])])

\* --------------------------- clean_raw_df, 3) engineered numeric features

TotalIncome(d) ==
    IF HasCol(d, "ApplicantIncome") /\ HasCol(d, "CoapplicantIncome")
    THEN SetCol(d, "TotalIncome",
                [i \in DOMAIN d.rows |->
                    QAdd(d.rows[i]["ApplicantIncome"], d.rows[i]["CoapplicantIncome"])])
    ELSE SetCol(d, "TotalIncome", [i \in DOMAIN d.rows |-> NaN])

\* the value that replaces a zero LoanAmount
loan_median(d) ==
    IF ~AllNull(Col(d, "LoanAmount")) THEN Median(Col(d, "LoanAmount")) ELSE Num(1)

\* Series.replace(0, v)
ReplaceZero(s, v) == [i \in DOMAIN s |-> IF IsZero(s[i]) THEN v ELSE s[i]]

IncomeToLoanRatio(d) ==
    IF HasCol(d, "LoanAmount")
    THEN LET d1 == SetCol(d, "LoanAmount", ReplaceZero(Col(d, "LoanAmount"), loan_median(d)))
         IN  \* d1's LoanAmount is the divisor
             SetCol(d1, "Income_to_Loan_Ratio",
                    [i \in DOMAIN d1.rows |->
                        Divide(d1.rows[i]["TotalIncome"], d1.rows[i]["LoanAmount"])])
    ELSE SetCol(d, "Income_to_Loan_Ratio", [i \in DOMAIN d.rows |-> NaN])

\* the two branches of np.where exchanged
ApplicantToCoappRatioSwapped(d) ==
    IF HasCol(d, "ApplicantIncome") /\ HasCol(d, "CoapplicantIncome")
    THEN SetCol(d, "Applicant_to_Coapp_Ratio",
                [i \in DOMAIN d.rows |->
                    IF IsZero(d.rows[i]["CoapplicantIncome"])
                    THEN Divide(d.rows[i]["ApplicantIncome"], d.rows[i]["CoapplicantIncome"])
                    ELSE d.rows[i]["ApplicantIncome"]])
    ELSE d

\* np.where(CoapplicantIncome == 0, ApplicantIncome, ApplicantIncome / CoapplicantIncome)
ApplicantToCoappRatio(d) ==
    IF HasCol(d, "ApplicantIncome") /\ HasCol(d, "CoapplicantIncome")
    THEN SetCol(d, "Applicant_to_Coapp_Ratio",
                [i \in DOMAIN d.rows |->
                    IF IsZero(d.rows[i]["CoapplicantIncome"])
                    THEN d.rows[i]["ApplicantIncome"]
                    ELSE Divide(d.rows[i]["ApplicantIncome"], d.rows[i]["CoapplicantIncome"])])
    ELSE d

EngineeredFeatures(d) == ApplicantToCoappRatio(IncomeToLoanRatio(TotalIncome(d)))

\* ------------------------------------------ clean_raw_df, 4) outlier capping

\* a > b as pandas compares floats: False when either side is NaN
Gt(a, b) == IsNum(a) /\ IsNum(b) /\ QLess(b, a)

\* the 99th percentile of ApplicantIncome
cap_val(d) == Quantile(Col(d, "ApplicantIncome"), 99, 100)

\* rows above cap_val get int(cap_val); int(NaN) raises ValueError
CapApplicantIncome(d) ==
    IF ~HasCol(d, "ApplicantIncome") THEN d
    ELSE IF ~IsNum(cap_val(d)) THEN Raise("ValueError")
    ELSE SetCol(d, "ApplicantIncome",
                [i \in DOMAIN d.rows |->
                    IF Gt(d.rows[i]["ApplicantIncome"], cap_val(d))
                    THEN Trunc(cap_val(d))
                    ELSE d.rows[i]["ApplicantIncome"]])

\* clip LoanAmount to [Q1 - 1.5*IQR, Q3 + 1.5*IQR]
CapLoanAmount(d) ==
    IF ~HasCol(d, "LoanAmount") THEN d
    ELSE LET Q1 == Quantile(Col(d, "LoanAmount"), 25, 100)
             Q3 == Quantile(Col(d, "LoanAmount"), 75, 100)
         IN  IF ~IsNum(Q1) THEN d
             ELSE LET IQR == QSub(Q3, Q1)
                      lower == QSub(Q1, QMul(Q(3, 2), IQR))
                      upper == QAdd(Q3, QMul(Q(3, 2), IQR))
                      low == [i \in DOMAIN d.rows |->
                                 IF Gt(lower, d.rows[i]["LoanAmount"])
                                 THEN lower ELSE d.rows[i]["LoanAmount"]]
                  IN  SetCol(d, "LoanAmount",
                             [i \in DOMAIN low |-> IF Gt(low[i], upper) THEN upper ELSE low[i]])

OutlierCapping(d) == Then(CapApplicantIncome(d), CapLoanAmount)

\* ------------------------------------- clean_raw_df, 5) categorical mappings

\* Series.map({one: 1, zero: 0}).fillna(0).astype(int)
MapBinary(d, c, one, zero) ==
    IF ~HasCol(d, c) THEN d
    ELSE LET mapped == [i \in DOMAIN d.rows |->
                           IF d.rows[i][c] = Str(one) THEN Num(1)
                           ELSE IF d.rows[i][c] = Str(zero) THEN Num(0)
                           ELSE NaN]
             filled == Fillna(mapped, Num(0))
         IN  SetCol(d, c, [i \in DOMAIN filled |-> Trunc(filled[i])])

CategoricalMappings(d) ==
    MapBinary(MapBinary(MapBinary(MapBinary(d, "Gender", "Male", "Female"),
        "Married", "Yes", "No"), "Education", "Graduate", "Not Graduate"),
        "Self_Employed", "Yes", "No")

\* -------------------------------------- clean_raw_df, 6) one-hot Property_Area

\* the column pd.get_dummies(prefix='Property') names for a category
DummyName(s) ==
    IF s = "Rural" THEN "Property_Rural"
    ELSE IF s = "Semiurban" THEN "Property_Semiurban"
    ELSE IF s = "Urban" THEN "Property_Urban"
    ELSE "Property_Other"

PropertyCols == <<"Property_Rural", "Property_Semiurban", "Property_Urban">>

\* pd.get_dummies(df['Property_Area'], prefix='Property'), then the columns of
\* PropertyCols it lacks added as 0: per row, column name -> 0/1
prop_dummies(d) ==
    LET area == Col(d, "Property_Area")
        made == {DummyName(area[i].s) : i \in {j \in DOMAIN area : ~IsNull(area[j])}}
        all == made \cup {PropertyCols[k] : k \in DOMAIN PropertyCols}
    IN  [i \in DOMAIN area |->
            [c \in all |->
                IF c \in made /\ ~IsNull(area[i]) /\ DummyName(area[i].s) = c
                THEN Num(1) ELSE Num(0)]]

\* every column of prop_dummies attached, not only PropertyCols
OneHotAllDummies(d) ==
    IF ~HasCol(d, "Property_Area") THEN d
    ELSE LET dummies == prop_dummies(d)
             base == DropCols(d, {"Property_Area"})
             extra == IF \E i \in DOMAIN dummies : "Property_Other" \in DOMAIN dummies[i]
                      THEN <<"Property_Other">> ELSE <<>>
         IN  [base EXCEPT
                !.cols = base.cols \o extra \o PropertyCols,
                !.rows = [i \in DOMAIN base.rows |->
                            [c \in DOMAIN dummies[i] |-> Trunc(dummies[i][c])] @@ base.rows[i]]]

\* concat of df without Property_Area and prop_dummies[PropertyCols], cast to int
OneHotPropertyArea(d) ==
    IF ~HasCol(d, "Property_Area") THEN d
    ELSE LET dummies == prop_dummies(d)
             base == DropCols(d, {"Property_Area"})
         IN  [base EXCEPT
                !.cols = base.cols \o PropertyCols,
                !.rows = [i \in DOMAIN base.rows |->
                            [c \in {PropertyCols[k] : k \in DOMAIN PropertyCols} |->
                                Trunc(dummies[i][c])] @@ base.rows[i]]]

\* ------------------------------------------- clean_raw_df, 7) target mapping

TargetMapping(d) ==
    IF ~HasCol(d, "Loan_Status") THEN d
    ELSE SetCol(d, "Loan_Status",
                [i \in DOMAIN d.rows |->
                    IF d.rows[i]["Loan_Status"] = Str("Y") THEN Num(1)
                    ELSE IF d.rows[i]["Loan_Status"] = Str("N") THEN Num(0)
                    ELSE NaN])

\* the batch after sections 1-3, before outlier capping
Engineered(d) == Then(Then(BasicImputations(d), DependentsCleanup), EngineeredFeatures)

clean_raw_df(d) ==
    Then(Then(Then(Then(Engineered(d), OutlierCapping), CategoricalMappings),
        OneHotPropertyArea), TargetMapping)


\* ------------------------------------------------------------------ inputs

\* the fields of a request, in declaration order
LoanApplication ==
    <<"Loan_ID", "Gender", "Married", "Dependents", "Education", "Self_Employed",
      "ApplicantIncome", "CoapplicantIncome", "LoanAmount", "Loan_Amount_Term",
      "Credit_History", "Property_Area">>

\* the columns of the historical records: the request's fields and the label
TrainingColumns == LoanApplication \o <<"Loan_Status">>

\* a batch with the LoanAmount field and little else
LoanOnlyColumns == <<"Loan_ID", "LoanAmount">>

\* a batch without the income and LoanAmount fields
NoIncomeColumns == <<"Loan_ID", "Gender", "Property_Area">>

\* one record: the request's fields in declaration order, then the label
Row(g, m, dep, e, se, a, c, l, t, h, area, st) ==
    [Loan_ID |-> Str("LP001"), Gender |-> g, Married |-> m, Dependents |-> dep,
     Education |-> e, Self_Employed |-> se, ApplicantIncome |-> a,
     CoapplicantIncome |-> c, LoanAmount |-> l, Loan_Amount_Term |-> t,
     Credit_History |-> h, Property_Area |-> area, Loan_Status |-> st]

Project(r, cols) == [c \in {cols[i] : i \in DOMAIN cols} |-> r[c]]

\* records that differ in the numeric fields
NumericRows ==
    {Project(Row(Str("Male"), Str("Yes"), Str("3+"), Str("Graduate"), Str("No"),
                 a, c, l, Num(360), Num(1), Str("Urban"), NaN), LoanApplication) :
        a \in {NaN, Num(1000), Num(2000)},
        c \in {NaN, Num(0), Num(500)},
        l \in {NaN, Num(0), Num(100)}}

\* records that differ in the nullable fields
NullableRows ==
    {Project(Row(Str("Male"), Str("Yes"), dep, Str("Graduate"), Str("No"),
                 Num(5000), Num(0), l, t, h, Str("Urban"), NaN), LoanApplication) :
        dep \in {NaN, Str("3+"), Str("abc")},
        l \in {NaN, Num(128)},
        t \in {NaN, Num(360)},
        h \in {NaN, Num(0)}}

\* records that differ in the binary categorical fields
CategoricalRows ==
    {Project(Row(g, me[1], Str("0"), me[2], se, Num(5000), Num(0), Num(128), Num(360),
                 Num(1), Str("Rural"), NaN), LoanApplication) :
        g \in {NaN, Str("Male"), Str("Female"), Str("Other")},
        me \in {<<Str("Yes"), Str("Graduate")>>, <<Str("No"), Str("Not Graduate")>>},
        se \in {NaN, Str("Yes")}}

\* historical records that differ in Property_Area and the label
PropertyRows ==
    {Project(Row(Str("Male"), Str("No"), Str("2"), Str("Graduate"), Str("No"), Num(5000),
                 Num(0), Num(128), Num(360), Num(1), area, st), TrainingColumns) :
        area \in {NaN, Str("Rural"), Str("Semiurban"), Str("Urban"), Str("Other")},
        st \in {Str("Y"), Str("N")}}

LoanOnlyRows ==
    {[Loan_ID |-> Str("LP001"), LoanAmount |-> l] :
        l \in {NaN, Num(0), Num(100), Num(400)}}

NoIncomeRows ==
    {[Loan_ID |-> Str("LP001"), Gender |-> g, Property_Area |-> area] :
        g \in {Str("Male"), Str("Other")},
        area \in {NaN, Str("Rural"), Str("Urban"), Str("Other")}}

MaxBatch == 2
DeepBatch == 4

\* the batches drawn: a column list, the rows that go with it, and how many
Slices ==
    {[cols |-> LoanApplication, rows |-> NumericRows, max |-> MaxBatch],
     [cols |-> LoanApplication, rows |-> NullableRows, max |-> MaxBatch],
     [cols |-> LoanApplication, rows |-> CategoricalRows, max |-> MaxBatch],
     [cols |-> TrainingColumns, rows |-> PropertyRows, max |-> MaxBatch],
     [cols |-> NoIncomeColumns, rows |-> NoIncomeRows, max |-> MaxBatch],
     [cols |-> LoanOnlyColumns, rows |-> LoanOnlyRows, max |-> DeepBatch]}

\* ---------------------------------------------------------- training data

TwoRows(cols) ==
    <<Project(Row(Str("Male"), Str("Yes"), Str("3+"), Str("Graduate"), Str("No"),
                  Num(5000), Num(0), Num(128), Num(360), Num(1), Str("Urban"), Str("Y")),
              cols),
      Project(Row(Str("Female"), Str("No"), Str("0"), Str("Not Graduate"), Str("Yes"),
                  Num(3000), Num(1500), Num(100), Num(360), Num(0), Str("Rural"), Str("N")),
              cols)>>

\* historical records whose CSV has an extra text column, Region
RegionColumns == TrainingColumns \o <<"Region">>
RegionRows ==
    <<TwoRows(TrainingColumns)[1] @@ [Region |-> Str("North")],
      TwoRows(TrainingColumns)[2] @@ [Region |-> Str("South")]>>

\* historical records whose CSV has no Credit_History column
NoCreditColumns == Without(TrainingColumns, {"Credit_History"})

\* the CSV files train_and_save is called with; "missing" is a path with no file
CsvFiles == {"missing", "standard", "no_label", "no_credit", "region"}

\* pd.read_csv(raw_csv_path)
read_csv(path) ==
    IF path = "standard" THEN Frame(TrainingColumns, TwoRows(TrainingColumns))
    ELSE IF path = "no_label" THEN Frame(LoanApplication, TwoRows(LoanApplication))
    ELSE IF path = "no_credit" THEN Frame(NoCreditColumns, TwoRows(NoCreditColumns))
    ELSE Frame(RegionColumns, RegionRows)

\* the requests sent to /predict
Requests ==
    {Project(Row(Str("Male"), Str("Yes"), Str("3+"), Str("Graduate"), Str("No"),
                 Num(5000), Num(0), l, t, Num(1), Str("Urban"), NaN), LoanApplication) :
        l \in {NaN, Num(128)}, t \in {NaN, Num(360)}}

MaxRuns == 2
ProbDen == 4

\* --------------------------------------------------------- train_and_save

\* a column of the frame holds text (dtype object)
IsObjectCol(d, c) == \E i \in DOMAIN d.rows : d.rows[i][c].k = "str"

\* the name pd.get_dummies gives the indicator of value v of column Region
RegionDummy(v) == IF v = "North" THEN "Region_North" ELSE "Region_South"

\* pd.get_dummies(X, columns=obj_cols): the text columns leave, their indicators
\* are appended in sorted order (the only text column the CSVs have is Region)
get_dummies(X) ==
    IF HasCol(X, "Region") /\ IsObjectCol(X, "Region")
    THEN LET base == DropCols(X, {"Region"})
             made == {RegionDummy(X.rows[i]["Region"].s) : i \in DOMAIN X.rows}
             names == SelectSeq(<<"Region_North", "Region_South">>, LAMBDA c : c \in made)
         IN  [base EXCEPT
                !.cols = base.cols \o names,
                !.rows = [i \in DOMAIN base.rows |->
                            [c \in made |->
                                IF RegionDummy(X.rows[i]["Region"].s) = c
                                THEN Num(1) ELSE Num(0)] @@ base.rows[i]]]
    ELSE X

LabelMissing == "ValueError: 'Loan_Status' not found"

\* steps 3b-6: X, the one-hot expansion of the remaining text columns, the
\* non-numeric check and feature_cols
features_of(d, boolIsNumeric) ==
    LET X == DropCols(d, {"Loan_ID", "Loan_Status"})
        X1 == get_dummies(X)
    IN  IF X1 # X /\ ~boolIsNumeric THEN [err |-> "RuntimeError", cols |-> <<>>]
        ELSE [err |-> "", cols |-> X1.cols]

\* steps 3-6 with the check that Loan_Status is a column left out
prepare_without_label_check(d, boolIsNumeric) == features_of(d, boolIsNumeric)

\* steps 3-6 of train_and_save on the cleaned records d: the label check, y, X,
\* the one-hot expansion of the remaining text columns, the non-numeric check and
\* feature_cols.  boolIsNumeric: whether the indicators get_dummies makes count as
\* numeric (uint8 in pandas 1.x, bool in pandas 2.x, which np.number excludes)
prepare(d, boolIsNumeric) ==
    IF ~HasCol(d, "Loan_Status") THEN [err |-> LabelMissing, cols |-> <<>>]
    ELSE IF AnyNull(Col(d, "Loan_Status")) THEN [err |-> "ValueError", cols |-> <<>>]
    ELSE features_of(d, boolIsNumeric)

NoFile == [run |-> 0, cols |-> <<>>]
NoResp == [status |-> 0, prediction |-> 0, probability |-> 0]

srvVars == <<srvPc, model, feature_cols, handed, resp>>
trainVars == <<run, raw_csv, trainPc, trainErr, transformerRan, trainDf, trainCols>>
diskVars == <<modelFile, featuresFile>>
cleanVars == <<df, out, eng, alone, pc>>

\* step 1: a new call; a path with no file raises FileNotFoundError, else the CSV is read
TrainStart ==
    /\ trainPc \in {"idle", "done", "failed"}
    /\ run < MaxRuns
    /\ \E path \in CsvFiles :
         /\ raw_csv' = path
         /\ trainPc' = IF path = "missing" THEN "failed" ELSE "loaded"
         /\ trainErr' = IF path = "missing" THEN "FileNotFoundError" ELSE ""
    /\ run' = run + 1
    /\ transformerRan' = FALSE
    /\ trainDf' = Frame(<<>>, <<>>)
    /\ trainCols' = <<>>
    /\ UNCHANGED <<diskVars, srvVars, cleanVars>>

\* step 2: df = clean_raw_df(df_raw)
TrainClean ==
    /\ trainPc = "loaded"
    /\ transformerRan' = TRUE
    /\ trainDf' = clean_raw_df(read_csv(raw_csv))
    /\ trainPc' = IF trainDf'.err # "" THEN "failed" ELSE "cleaned"
    /\ trainErr' = trainDf'.err
    /\ UNCHANGED <<run, raw_csv, trainCols, diskVars, srvVars, cleanVars>>

\* steps 3-6: the label check and feature_cols
TrainPrepare ==
    /\ trainPc = "cleaned"
    /\ \E boolIsNumeric \in BOOLEAN :
         LET p == prepare(trainDf, boolIsNumeric)
         IN  /\ trainPc' = IF p.err # "" THEN "failed" ELSE "prepared"
             /\ trainErr' = p.err
             /\ trainCols' = p.cols
    /\ UNCHANGED <<run, raw_csv, transformerRan, trainDf, diskVars, srvVars, cleanVars>>

\* steps 7-9: the split, the grid search and the evaluation, which succeed or raise
\* (train_test_split refuses a class with a single member, a fit may not converge)
TrainFit ==
    /\ trainPc = "prepared"
    /\ \E ok \in BOOLEAN :
         /\ trainPc' = IF ok THEN "fitted" ELSE "failed"
         /\ trainErr' = IF ok THEN "" ELSE "ValueError"
    /\ UNCHANGED <<run, raw_csv, transformerRan, trainDf, trainCols, diskVars, srvVars,
                   cleanVars>>

\* step 10, first half: joblib.dump(clf, out_model_path)
DumpModel ==
    /\ trainPc = "fitted"
    /\ modelFile' = [run |-> run, cols |-> trainCols]
    /\ trainPc' = "model_saved"
    /\ UNCHANGED <<featuresFile, run, raw_csv, trainErr, transformerRan, trainDf, trainCols,
                   srvVars, cleanVars>>

\* step 10, second half: joblib.dump(feature_cols, out_features_path)
DumpFeatures ==
    /\ trainPc = "model_saved"
    /\ featuresFile' = [run |-> run, cols |-> trainCols]
    /\ trainPc' = "done"
    /\ UNCHANGED <<modelFile, run, raw_csv, trainErr, transformerRan, trainDf, trainCols,
                   srvVars, cleanVars>>

\* a write that raises OSError, or the process being stopped, ends the call where it is
TrainCrash ==
    /\ trainPc \in {"loaded", "cleaned", "prepared", "fitted", "model_saved"}
    /\ trainPc' = "failed"
    /\ trainErr' = "OSError"
    /\ UNCHANGED <<run, raw_csv, transformerRan, trainDf, trainCols, diskVars, srvVars,
                   cleanVars>>

\* ------------------------------------------------------------------ app.py

\* model = joblib.load("models/model.pkl"); a missing file keeps the process down
LoadModel ==
    /\ srvPc = "down"
    /\ modelFile.run # 0
    /\ model' = modelFile
    /\ srvPc' = "model_loaded"
    /\ UNCHANGED <<feature_cols, handed, resp, trainVars, diskVars, cleanVars>>

\* feature_cols = joblib.load("models/features.pkl")
LoadFeatures ==
    /\ srvPc = "model_loaded"
    /\ IF featuresFile.run # 0
       THEN feature_cols' = featuresFile /\ srvPc' = "up"
       ELSE feature_cols' = NoFile /\ srvPc' = "down"
    /\ UNCHANGED <<model, handed, resp, trainVars, diskVars, cleanVars>>

\* the serving process ends
Shutdown ==
    /\ srvPc = "up"
    /\ srvPc' = "down"
    /\ model' = NoFile
    /\ feature_cols' = NoFile
    /\ handed' = <<>>
    /\ resp' = NoResp
    /\ UNCHANGED <<trainVars, diskVars, cleanVars>>

\* GridSearchCV.predict of the LogisticRegression pipeline train_and_save fits:
\* the positive class exactly when the decision function is above 0, that is when
\* the positive-class probability p/ProbDen is above 1/2
predict(p) == IF 2 * p > ProbDen THEN 1 ELSE 0

\* what predict_loan_status returns for the model's outputs
response(pred_class, pred_prob) ==
    [status |-> 200, prediction |-> pred_class, probability |-> pred_prob]

\* POST /predict: one request through clean_raw_df, the drop of Loan_ID and
\* Loan_Status, model.predict and model.predict_proba.  An exception in
\* clean_raw_df, or in the model when the batch has not as many columns as it was
\* fitted on, is answered 500
predict_loan_status ==
    /\ srvPc = "up"
    /\ \E application \in Requests :
         LET df_clean == clean_raw_df(Frame(LoanApplication, <<application>>))
             X_new == DropCols(df_clean, {"Loan_ID", "Loan_Status"})
         IN  IF df_clean.err # ""
             THEN handed' = <<>> /\ resp' = [NoResp EXCEPT !.status = 500]
             ELSE /\ handed' = X_new.cols
                  /\ \E p \in 0..ProbDen :
                        resp' = IF Len(X_new.cols) # Len(model.cols)
                                THEN [NoResp EXCEPT !.status = 500]
                                ELSE response(predict(p), p)
    /\ UNCHANGED <<srvPc, model, feature_cols, trainVars, diskVars, cleanVars>>

\* ----------------------------------------------------------- specifications

vars == <<df, out, eng, alone, pc, modelFile, featuresFile, run, raw_csv, trainPc, trainErr,
          transformerRan, trainDf, trainCols, srvPc, model, feature_cols, handed, resp>>

ServiceInit ==
    /\ modelFile = NoFile
    /\ featuresFile = NoFile
    /\ run = 0
    /\ raw_csv = ""
    /\ trainPc = "idle"
    /\ trainErr = ""
    /\ transformerRan = FALSE
    /\ trainDf = Frame(<<>>, <<>>)
    /\ trainCols = <<>>
    /\ srvPc = "down"
    /\ model = NoFile
    /\ feature_cols = NoFile
    /\ handed = <<>>
    /\ resp = NoResp

CleanInit ==
    /\ out = Frame(<<>>, <<>>)
    /\ eng = Frame(<<>>, <<>>)
    /\ alone = <<>>
    /\ pc = "input"

\* the transformer on its own: a batch is built and clean_raw_df is called on it
Init ==
    /\ df \in {Frame(s.cols, <<>>) : s \in Slices}
    /\ CleanInit
    /\ ServiceInit

\* one more record joins the batch the caller is building
AddRecord ==
    /\ pc = "input"
    /\ \E s \in Slices :
         \E r \in s.rows :
            /\ df.cols = s.cols
            /\ Len(df.rows) < s.max
            /\ \A i \in DOMAIN df.rows : df.rows[i] \in s.rows
            /\ df' = [df EXCEPT !.rows = Append(df.rows, r)]
    /\ UNCHANGED <<out, eng, alone, pc, trainVars, diskVars, srvVars>>

\* the call clean_raw_df(df)
Clean ==
    /\ pc = "input"
    /\ out' = clean_raw_df(df)
    /\ eng' = Engineered(df)
    /\ alone' = [i \in DOMAIN df.rows |-> clean_raw_df(Frame(df.cols, <<df.rows[i]>>))]
    /\ pc' = "done"
    /\ UNCHANGED <<df, trainVars, diskVars, srvVars>>

Next == AddRecord \/ Clean

Spec == Init /\ [][Next]_vars

\* training runs and serving processes on the same models/ directory
ServiceStart ==
    /\ df = Frame(<<>>, <<>>)
    /\ CleanInit
    /\ ServiceInit

ServiceNext ==
    \/ TrainStart \/ TrainClean \/ TrainPrepare \/ TrainFit \/ DumpModel \/ DumpFeatures
    \/ TrainCrash
    \/ LoadModel \/ LoadFeatures \/ Shutdown \/ predict_loan_status

ServiceSpec == ServiceStart /\ [][ServiceNext]_vars

\* ------------------------------------------------- claims on clean_raw_df

Returned == pc = "done" /\ out.err = ""
ColSet(d) == {d.cols[i] : i \in DOMAIN d.cols}

\* C3: in every returned batch whose input has LoanAmount, no LoanAmount is 0 or
\* null, and no 0 or null LoanAmount was the divisor of Income_to_Loan_Ratio
LoanAmountNeverZeroOrNull ==
    (Returned /\ HasCol(df, "LoanAmount")) =>
        \A i \in DOMAIN out.rows :
            /\ IsNum(out.rows[i]["LoanAmount"]) /\ ~IsZero(out.rows[i]["LoanAmount"])
            /\ IsNum(eng.rows[i]["LoanAmount"])
            /\ ~IsZero(eng.rows[i]["LoanAmount"])

\* C4: in every returned batch of loan-application records, every cell outside the
\* identifier and label columns is a number: not null, not a string
AllCellsNumeric ==
    (Returned /\ df.cols \in {LoanApplication, TrainingColumns}) =>
        \A i \in DOMAIN out.rows :
            \A c \in ColSet(out) \ {"Loan_ID", "Loan_Status"} :
                out.rows[i][c].k \in {"num", "inf"}

\* a request as the endpoint accepts it: only Dependents, LoanAmount,
\* Loan_Amount_Term and Credit_History may be null, and Dependents is otherwise one
\* of "0", "1", "2", "3+"
ValidApplication(r) ==
    /\ r["Dependents"] \in {NaN, Str("0"), Str("1"), Str("2"), Str("3+")}
    /\ \A c \in {"Gender", "Married", "Education", "Self_Employed", "Property_Area",
                 "ApplicantIncome", "CoapplicantIncome"} : ~IsNull(r[c])

\* C5: clean_raw_df on a batch of one request never raises, whichever of the
\* nullable fields are null
SingleRecordNeverRaises ==
    (pc = "done" /\ df.cols = LoanApplication /\ Len(df.rows) = 1
        /\ ValidApplication(df.rows[1])) => out.err = ""

PropertyNames ==
    {"Property_Area", "Property_Rural", "Property_Semiurban", "Property_Urban",
     "Property_Other"}

\* C6: a returned batch whose input has Property_Area has no Property_Area column,
\* has Property_Rural, Property_Semiurban, Property_Urban and no other Property_*
\* column, each 0 or 1, at most one of them 1 per record
PropertyOneHotExact ==
    (Returned /\ HasCol(df, "Property_Area")) =>
        /\ ColSet(out) \cap PropertyNames = {PropertyCols[k] : k \in DOMAIN PropertyCols}
        /\ \A i \in DOMAIN out.rows :
            /\ \A k \in DOMAIN PropertyCols :
                  out.rows[i][PropertyCols[k]] \in {Num(0), Num(1)}
            /\ Cardinality({k \in DOMAIN PropertyCols :
                              out.rows[i][PropertyCols[k]] = Num(1)}) <= 1

\* C6 witness: a returned batch that holds a record with an unrecognized area and
\* a record with a recognized one, encoded 1 in its own column
PropertyOneHotWitness ==
    /\ Returned /\ HasCol(df, "Property_Area")
    /\ \E i, j \in DOMAIN df.rows :
          /\ df.rows[i]["Property_Area"] = Str("Other")
          /\ df.rows[j]["Property_Area"] = Str("Semiurban")
          /\ out.rows[j]["Property_Semiurban"] = Num(1)

HasIncomes(d) == HasCol(d, "ApplicantIncome") /\ HasCol(d, "CoapplicantIncome")

\* the record's ApplicantIncome was above the batch's 99th percentile
Capped(i) ==
    Gt(eng.rows[i]["ApplicantIncome"], cap_val(eng))

\* C7 as stated: a record with CoapplicantIncome 0 has Applicant_to_Coapp_Ratio
\* equal to its ApplicantIncome in the returned batch
RatioIsReturnedApplicantIncome ==
    (Returned /\ HasIncomes(df)) =>
        \A i \in DOMAIN out.rows :
            IsZero(out.rows[i]["CoapplicantIncome"]) =>
                out.rows[i]["Applicant_to_Coapp_Ratio"] = out.rows[i]["ApplicantIncome"]

\* C7 amended: a record with CoapplicantIncome 0 has Applicant_to_Coapp_Ratio equal
\* to its ApplicantIncome before outlier capping (null counted as 0), which is its
\* returned ApplicantIncome unless the record was capped
RatioIsUncappedApplicantIncome ==
    (Returned /\ HasIncomes(df)) =>
        \A i \in DOMAIN out.rows :
            IsZero(out.rows[i]["CoapplicantIncome"]) =>
                /\ out.rows[i]["Applicant_to_Coapp_Ratio"] =
                      (IF IsNull(df.rows[i]["ApplicantIncome"]) THEN Num(0)
                       ELSE df.rows[i]["ApplicantIncome"])
                /\ ~Capped(i) =>
                      out.rows[i]["Applicant_to_Coapp_Ratio"] = out.rows[i]["ApplicantIncome"]
                /\ Capped(i) =>
                      out.rows[i]["Applicant_to_Coapp_Ratio"] # out.rows[i]["ApplicantIncome"]

\* C7 witness: a returned batch of several records where a record with
\* CoapplicantIncome 0 had its ApplicantIncome capped
RatioWitness ==
    /\ Returned /\ HasIncomes(df) /\ Len(df.rows) > 1
    /\ \E i \in DOMAIN out.rows : IsZero(out.rows[i]["CoapplicantIncome"]) /\ Capped(i)

CategoricalFields ==
    {"Gender", "Married", "Education", "Self_Employed", "Dependents", "Property_Area"}
EncodedColumns ==
    {"Gender", "Married", "Education", "Self_Employed", "Dependents",
     "Property_Rural", "Property_Semiurban", "Property_Urban"}

NonNullCategoricals(r) == \A c \in CategoricalFields \cap DOMAIN r : ~IsNull(r[c])

\* C8: for a record of the batch with non-null categorical fields, clean_raw_df on
\* the record alone and on the batch give the same columns in the same order and the
\* same encoded categorical values for the record
SingleAndBatchAgree ==
    pc = "done" =>
        \A i \in DOMAIN df.rows :
            NonNullCategoricals(df.rows[i]) =>
                /\ alone[i].err = out.err
                /\ alone[i].cols = out.cols
                /\ \A c \in EncodedColumns \cap ColSet(out) :
                      alone[i].rows[1][c] = out.rows[i][c]

\* ------------------------------------- claims on training and the endpoint

\* C1: the batch predict_loan_status hands to the model has exactly the columns of
\* the persisted feature list the process loaded, in its order
HandedBatchMatchesFeatureList ==
    (srvPc = "up" /\ handed # <<>>) => handed = feature_cols.cols

\* C2: the class in a response is 1 exactly when the positive-class probability is at
\* least 1/2, a probability of exactly 1/2 included
ClassIsThresholdOfProbability ==
    resp.status = 200 =>
        resp.prediction = (IF 2 * resp.probability >= ProbDen THEN 1 ELSE 0)

WroteNothing == modelFile.run # run /\ featuresFile.run # run
LacksLabel(path) == path \notin {"", "missing"} /\ ~HasCol(read_csv(path), "Loan_Status")

\* C9 as stated: a call that ended with the missing-CSV or the missing-label error
\* raised it before the transformer ran, and wrote neither artifact
FatalBeforeAnyComputation ==
    (trainPc = "failed" /\ trainErr \in {"FileNotFoundError", LabelMissing}) =>
        ~transformerRan /\ WroteNothing

\* C9 amended: a call with a missing CSV path fails with FileNotFoundError before the
\* transformer runs; a call on records without Loan_Status never gets past the label
\* check, so no model is fitted, and its missing-label error is raised after the
\* transformer ran; in both cases the call writes neither artifact
TrainingFailsWithoutArtifacts ==
    /\ raw_csv = "missing" =>
          /\ trainPc = "failed" /\ trainErr = "FileNotFoundError"
          /\ ~transformerRan /\ WroteNothing
    /\ LacksLabel(raw_csv) =>
          /\ trainPc \in {"loaded", "cleaned", "failed"}
          /\ WroteNothing
          /\ trainErr = LabelMissing => transformerRan

\* C9 witness: after a call that wrote both artifacts, a call on records without
\* Loan_Status has ended with the missing-label error
TrainingFailsWitness ==
    /\ trainPc = "failed" /\ trainErr = LabelMissing /\ LacksLabel(raw_csv)
    /\ transformerRan
    /\ modelFile.run # 0 /\ featuresFile.run # 0

\* C10: the model and the feature list a serving process holds were written by the
\* same train_and_save call
LoadedPairMatches ==
    srvPc = "up" => model.run = feature_cols.run
====
